---- MODULE Spec2Model ----
(***************************************************************************)
(* The embedding plugin bridge of plugin/api/embedding.go:                 *)
(*   - EmbeddingPlugin, the go-plugin registration facade                  *)
(*     (Server, Client, GRPCServer, GRPCClient);                           *)
(*   - EmbeddingGRPCServer, the adapter that serves a local Embedding      *)
(*     implementation as the gRPC method Embedding;                        *)
(*   - EmbeddingGRPCClient, the adapter that implements Embedding by one   *)
(*     gRPC call.                                                          *)
(* Go values are modelled with their nil-ness: a slice is a record         *)
(* [isNil, elems], a *EmbeddingResponse a record [isNil, Embedding], an    *)
(* error a record with its kind, its Error() text (a sequence of message   *)
(* parts) and, for a %w wrapper, its cause.  float32 values are integers   *)
(* counting tenths (0.1 is 1, 1.0 is 10); the wire carries them bit-exact. *)
(***************************************************************************)
EXTENDS Integers, Sequences, FiniteSets, TLC

VARIABLES
    plugin,      \* instance -> the EmbeddingPlugin struct (its Embedding field)
    taken,       \* instance -> the gRPC construction paths taken on it so far
    registered,  \* grpc.Server handle -> the EmbeddingGRPCServer registered on it
    clients,     \* the EmbeddingGRPCClient values GRPCClient has returned
    ret,         \* what the last facade call returned
    call,        \* caller -> its EmbeddingGRPCClient.Embedding call
    stream,      \* caller -> the RPC of that call: transport and server side
    overlap      \* some call was issued while another was in flight

vars == <<plugin, taken, registered, clients, ret, call, stream, overlap>>

(* ------------------------------ bounds -------------------------------- *)

\* concurrent callers of one EmbeddingGRPCClient
NumCallers == 2
\* grpc.Server / grpc.ClientConn handles the framework may hand to the facade
NumHandles == 2

Callers == 1..NumCallers
Handles == 1..NumHandles
Instances == {"plugin", "host"}
Inputs == {"", "a", "bb"}

(* --------------------------- Go value shapes -------------------------- *)

Nil == [isNil |-> TRUE]
NilSlice == [isNil |-> TRUE, elems |-> <<>>]
Slice(elems) == [isNil |-> FALSE, elems |-> elems]

NoErr == [kind |-> "nil", msg |-> <<>>]
ImplErr(m) == [kind |-> "impl", msg |-> <<m>>]
CtxErr(e) == [kind |-> "ctx", msg |-> <<"context", e>>]
StatusErr(code, desc) ==
    [kind |-> "status", code |-> code, desc |-> desc,
     msg |-> <<"rpc error", code>> \o desc]
ErrNotGRPC == [kind |-> "sentinel", msg |-> <<"ErrNotGRPC">>]

\* errors.Unwrap: the cause of a %w wrapper, nil for anything else
Unwrap(e) == IF e.kind = "wrap" THEN e.cause ELSE NoErr

\* fmt.Errorf("<tag>: %w", err): the text is prefixed, the cause is kept
ErrorfDropsCause(tag, err) == [kind |-> "flat", msg |-> <<tag>>]
Errorf(tag, err) == [kind |-> "wrap", msg |-> <<tag>> \o err.msg, cause |-> err]

EmbeddingFailed == "embedding failed"

\* context.Context: its Err() and the logging scope it carries
Background == [err |-> "none", scope |-> ""]
CtxErrs == {"canceled", "deadline exceeded"}

\* InitLogging(ctx, name): the context with the named logging scope attached
InitLogging(ctx, name) == [ctx EXCEPT !.scope = name]

(* --------------------- the bound implementations ---------------------- *)

NilImpl == "nil"
Impls == {"len", "table", "fail", "strict"}

\* Embedding.Embedding(ctx, input) of the bound implementation: a non-nil
\* vector and no error, or no vector and an error.
\*   len    : input -> [len(input)]
\*   table  : "" -> [] (a vector of length 0), any other -> [0.1, 0.2, 0.3]
\*   fail   : always fails
\*   strict : honours ctx, rejects the empty input, else [len(input)]
ImplEmbedding(impl, ctx, input) ==
    CASE impl = "len"    -> [embedding |-> Slice(<<10 * Len(input)>>), err |-> NoErr]
      [] impl = "table"  ->
            IF input = ""
            THEN [embedding |-> Slice(<<>>), err |-> NoErr]
            ELSE [embedding |-> Slice(<<1, 2, 3>>), err |-> NoErr]
      [] impl = "fail"   -> [embedding |-> NilSlice, err |-> ImplErr("model unavailable")]
      [] impl = "strict" ->
            IF ctx.err # "none"
            THEN [embedding |-> NilSlice, err |-> CtxErr(ctx.err)]
            ELSE IF input = ""
            THEN [embedding |-> NilSlice, err |-> ImplErr("empty input")]
            ELSE [embedding |-> Slice(<<10 * Len(input)>>), err |-> NoErr]

(* ------------------------------ adapters ------------------------------ *)

NewEmbeddingPlugin(embedding) == [Embedding |-> embedding]

NewEmbeddingGRPCServerNoImpl(impl) == [isNil |-> FALSE, Impl |-> NilImpl]
NewEmbeddingGRPCServer(impl) == [isNil |-> FALSE, Impl |-> impl]

NewEmbeddingGRPCClient(client) == [isNil |-> FALSE, Client |-> client]

NilResponse == [isNil |-> TRUE, Embedding |-> NilSlice]
EmbeddingResponse(embedding) == [isNil |-> FALSE, Embedding |-> embedding]

\* EmbeddingGRPCServer.Embedding, line 88: the context handed to Impl
HandlerCtxUnscoped(ctx) == ctx
HandlerCtx(ctx) == InitLogging(ctx, "embedding")

\* EmbeddingGRPCServer.Embedding, lines 91-97: from Impl's result to the
\* handler's (*EmbeddingResponse, error)
HandlerReturnDropsVector(embedding, err) ==
    IF err # NoErr
    THEN [resp |-> NilResponse, err |-> Errorf(EmbeddingFailed, err)]
    ELSE [resp |-> EmbeddingResponse(NilSlice), err |-> NoErr]
HandlerReturn(embedding, err) ==
    IF err # NoErr
    THEN [resp |-> NilResponse, err |-> Errorf(EmbeddingFailed, err)]
    ELSE [resp |-> EmbeddingResponse(embedding), err |-> NoErr]

\* EmbeddingGRPCClient.Embedding, lines 119-121: the request of a call
EmbeddingRequestBlank(input) == [Input |-> ""]
EmbeddingRequest(input) == [Input |-> input]

\* EmbeddingGRPCClient.Embedding, line 123: the context given to the stub
StubCtxDetached(ctx) == Background
StubCtx(ctx) == ctx

\* EmbeddingGRPCClient.Embedding, lines 124-128: from the stub's
\* (*EmbeddingResponse, error) to the call's ([]float32, error)
ClientReturnSwallowsError(resp, err) ==
    [embedding |-> resp.Embedding, err |-> NoErr]
ClientReturnKeepsPayload(resp, err) ==
    IF err # NoErr
    THEN [embedding |-> Slice(<<>>), err |-> Errorf(EmbeddingFailed, err)]
    ELSE [embedding |-> resp.Embedding, err |-> NoErr]
ClientReturn(resp, err) ==
    IF err # NoErr
    THEN [embedding |-> NilSlice, err |-> Errorf(EmbeddingFailed, err)]
    ELSE [embedding |-> resp.Embedding, err |-> NoErr]

\* EmbeddingGRPCClient.Embedding, lines 124-128: both branches return, so
\* the call is over after one answer of the stub
AfterStubRetry(err) == IF err # NoErr THEN "start" ELSE "returned"
AfterStub(err) == "returned"

(* ----------------- the transport between the adapters ----------------- *)

\* How the gRPC server puts a handler's error on the wire: a status of code
\* Unknown whose description is the error's text (the error value itself
\* does not cross the process boundary).
WireStatus(err) == StatusErr("Unknown", err.msg)

\* The handler's return as it crosses the wire: a status, or the elements
\* of the repeated float field.
WireAnswer(h) ==
    IF h.err # NoErr
    THEN [ok |-> FALSE, status |-> WireStatus(h.err), elems |-> <<>>]
    ELSE [ok |-> TRUE, status |-> NoErr, elems |-> h.resp.Embedding.elems]

NoAnswer == [ok |-> FALSE, status |-> NoErr, elems |-> <<>>]

\* Decoding the repeated float field: elements are appended to the message's
\* slice, so a field with no element leaves the slice nil.
DecodeEmbedding(elems) == IF elems = <<>> THEN NilSlice ELSE Slice(elems)

CtxCode(e) == IF e = "canceled" THEN "Canceled" ELSE "DeadlineExceeded"

\* EmbeddingClient.Embedding(ctx, req) as it returns to the Client Adapter:
\* the status of a done context, else the remote status, else the decoded
\* response.
StubResult(ctx, answer) ==
    IF ctx.err # "none"
    THEN [resp |-> NilResponse, err |-> StatusErr(CtxCode(ctx.err), <<"context", ctx.err>>)]
    ELSE IF answer.ok
    THEN [resp |-> EmbeddingResponse(DecodeEmbedding(answer.elems)), err |-> NoErr]
    ELSE [resp |-> NilResponse, err |-> answer.status]

\* The context of the server-side stream: cancellation of the context the
\* stub was given propagates, values (the logging scope) do not.
StreamCtx(ctx) == [err |-> ctx.err, scope |-> ""]

(* ------------------------------- state -------------------------------- *)

NoResult == [embedding |-> NilSlice, err |-> NoErr]
NoHandler == [resp |-> NilResponse, err |-> NoErr]

IdleCall ==
    [pc |-> "start", input |-> "", ctx |-> [err |-> "none", scope |-> "host"],
     rpcs |-> 0, result |-> NoResult]

IdleStream ==
    [state |-> "none", conn |-> 0, req |-> EmbeddingRequest(""),
     implCalled |-> FALSE, implScope |-> "", impl |-> NoResult,
     handler |-> NoHandler, answer |-> NoAnswer]

NoRet == [op |-> "none", inst |-> "none", value |-> Nil, err |-> NoErr]

\* One plugin process serving impl on handle 1 and one host process holding
\* the Client Adapter of the connection to it: the state after both sides'
\* go-plugin construction.
Init ==
    \E impl \in Impls :
        /\ plugin = [i \in Instances |->
                        IF i = "plugin" THEN NewEmbeddingPlugin(impl)
                        ELSE NewEmbeddingPlugin(NilImpl)]
        /\ taken = [i \in Instances |-> IF i = "plugin" THEN {"server"} ELSE {"client"}]
        /\ registered = [h \in Handles |->
                            IF h = 1 THEN NewEmbeddingGRPCServer(impl) ELSE Nil]
        /\ clients = {NewEmbeddingGRPCClient(1)}
        /\ ret = [op |-> "GRPCClient", inst |-> "host",
                  value |-> NewEmbeddingGRPCClient(1), err |-> NoErr]
        /\ call = [c \in Callers |-> IdleCall]
        /\ stream = [c \in Callers |-> IdleStream]
        /\ overlap = FALSE

\* The facade instances right after NewEmbeddingPlugin, nothing constructed.
FacadeInit ==
    \E impl \in Impls :
        /\ plugin = [i \in Instances |->
                        IF i = "plugin" THEN NewEmbeddingPlugin(impl)
                        ELSE NewEmbeddingPlugin(NilImpl)]
        /\ taken = [i \in Instances |-> {}]
        /\ registered = [h \in Handles |-> Nil]
        /\ clients = {}
        /\ ret = NoRet
        /\ call = [c \in Callers |-> IdleCall]
        /\ stream = [c \in Callers |-> IdleStream]
        /\ overlap = FALSE

(* ------------------------- the facade's methods ----------------------- *)

\* EmbeddingPlugin.Server(broker)
ServerBuildsAdapter(i) ==
    /\ ret' = [op |-> "Server", inst |-> i,
               value |-> NewEmbeddingGRPCServer(plugin[i].Embedding), err |-> NoErr]
    /\ UNCHANGED <<plugin, taken, registered, clients, call, stream, overlap>>
Server(i) ==
    /\ ret' = [op |-> "Server", inst |-> i, value |-> Nil, err |-> ErrNotGRPC]
    /\ UNCHANGED <<plugin, taken, registered, clients, call, stream, overlap>>

\* EmbeddingPlugin.Client(broker, rpcClient)
Client(i) ==
    /\ ret' = [op |-> "Client", inst |-> i, value |-> Nil, err |-> ErrNotGRPC]
    /\ UNCHANGED <<plugin, taken, registered, clients, call, stream, overlap>>

\* EmbeddingPlugin.GRPCServer(broker, srv); srv is a grpc.Server on which the
\* Embedding service is not registered yet.
GRPCServer(i, srv) ==
    /\ registered[srv] = Nil
    /\ registered' = [registered EXCEPT
                         ![srv] = NewEmbeddingGRPCServer(plugin[i].Embedding)]
    /\ taken' = [taken EXCEPT ![i] = @ \cup {"server"}]
    /\ ret' = [op |-> "GRPCServer", inst |-> i, value |-> Nil, err |-> NoErr]
    /\ UNCHANGED <<plugin, clients, call, stream, overlap>>

\* EmbeddingPlugin.GRPCClient(ctx, broker, client)
GRPCClient(i, conn) ==
    /\ clients' = clients \cup {NewEmbeddingGRPCClient(conn)}
    /\ taken' = [taken EXCEPT ![i] = @ \cup {"client"}]
    /\ ret' = [op |-> "GRPCClient", inst |-> i,
               value |-> NewEmbeddingGRPCClient(conn), err |-> NoErr]
    /\ UNCHANGED <<plugin, registered, call, stream, overlap>>

(* --------------------------- one Embedding call ----------------------- *)

\* EmbeddingGRPCClient.Embedding(ctx, input) up to the stub call of line 123:
\* the request is built and one RPC is issued on the adapter's connection.
Embed(c, input) ==
    /\ call[c].pc = "start"
    /\ \E a \in clients :
          stream' = [stream EXCEPT ![c] =
                        [IdleStream EXCEPT !.state = "request",
                                           !.conn = a.Client,
                                           !.req = EmbeddingRequest(input)]]
    /\ call' = [call EXCEPT ![c].pc = "calling",
                            ![c].input = input,
                            ![c].rpcs = @ + 1]
    /\ overlap' = (overlap \/ \E d \in Callers \ {c} : call[d].pc = "calling")
    /\ UNCHANGED <<plugin, taken, registered, clients, ret>>

\* The caller's context is cancelled, or its deadline expires, while the call
\* is in flight.
CancelCtx(c, e) ==
    /\ call[c].pc = "calling"
    /\ call[c].ctx.err = "none"
    /\ call' = [call EXCEPT ![c].ctx.err = e]
    /\ UNCHANGED <<plugin, taken, registered, clients, ret, stream, overlap>>

\* EmbeddingGRPCServer.Embedding(ctx, req), whole: the request reaches the
\* adapter registered on the connection's server, which scopes the context,
\* calls Impl and returns; the return goes on the wire.  A request is served
\* while its call is in flight: the stream ends when the stub returns.
Handle(c) ==
    /\ call[c].pc = "calling"
    /\ stream[c].state = "request"
    /\ registered[stream[c].conn] # Nil
    /\ LET s    == registered[stream[c].conn]
           ctx  == HandlerCtx(StreamCtx(StubCtx(call[c].ctx)))
           r    == ImplEmbedding(s.Impl, ctx, stream[c].req.Input)
           h    == HandlerReturn(r.embedding, r.err)
       IN  stream' = [stream EXCEPT ![c].state = "response",
                                    ![c].implCalled = TRUE,
                                    ![c].implScope = ctx.scope,
                                    ![c].impl = r,
                                    ![c].handler = h,
                                    ![c].answer = WireAnswer(h)]
    /\ UNCHANGED <<plugin, taken, registered, clients, ret, call, overlap>>

\* EmbeddingGRPCClient.Embedding from the stub's return to its own return,
\* lines 123-128.  The stub returns once the answer is there or the context
\* it was given is done; this step is the end of the round trip, and an
\* answer still on its way when the context is done is dropped.
StubReturns(c) ==
    /\ call[c].pc = "calling"
    /\ \/ stream[c].state = "response"
       \/ StubCtx(call[c].ctx).err # "none"
    /\ LET s == StubResult(StubCtx(call[c].ctx), stream[c].answer)
       IN  call' = [call EXCEPT
                       ![c].pc = AfterStub(s.err),
                       ![c].result = ClientReturn(s.resp, s.err)]
    /\ UNCHANGED <<plugin, taken, registered, clients, ret, stream, overlap>>

Next ==
    \E c \in Callers :
        \/ \E input \in Inputs : Embed(c, input)
        \/ \E e \in CtxErrs : CancelCtx(c, e)
        \/ Handle(c)
        \/ StubReturns(c)

FacadeNext ==
    \E i \in Instances :
        \/ Server(i)
        \/ Client(i)
        \/ \E srv \in Handles : GRPCServer(i, srv)
        \/ \E conn \in Handles : GRPCClient(i, conn)

Spec == Init /\ [][Next]_vars

\* The stub returns whenever it can: gRPC ends a call whose context is done
\* and delivers an answer that has arrived.
FairSpec == Spec /\ \A c \in Callers : WF_vars(StubReturns(c))

FacadeSpec == FacadeInit /\ [][FacadeNext]_vars

(* ------------------------------ the claims ---------------------------- *)

\* The implementation behind the bridge, and what a call observed.
BoundImpl == plugin["plugin"].Embedding
Returned(c) == call[c].pc = "returned"
LiveCtx(c) == call[c].ctx.err = "none"
Answered(c) == stream[c].state = "response"
IsSuffix(s, t) ==
    /\ Len(s) <= Len(t)
    /\ SubSeq(t, Len(t) - Len(s) + 1, Len(t)) = s

C3_CauseSurvives ==
    \A c \in Callers :
        (Returned(c) /\ LiveCtx(c) /\ stream[c].impl.err # NoErr) =>
            LET e     == stream[c].impl.err
                cause == Unwrap(call[c].result.err)
            IN  /\ Unwrap(stream[c].handler.err) = e
                /\ cause.kind = "status"
                /\ IsSuffix(e.msg, cause.desc)

\* C3's case: the implementation rejected the empty input and the caller got
\* the wrapped remote error.
C3_Witness ==
    \E c \in Callers :
        /\ Returned(c) /\ LiveCtx(c)
        /\ stream[c].impl.err = ImplErr("empty input")
        /\ Unwrap(call[c].result.err) =
              StatusErr("Unknown", <<EmbeddingFailed, "empty input">>)

\* C4: every Server and every Client call returns (nil, ErrNotGRPC) and
\* changes nothing: no adapter is registered or returned, no path is taken
\* and no implementation is invoked.
C4_LegacyRejected ==
    [][ret'.op \in {"Server", "Client"} =>
          /\ ret'.value = Nil
          /\ ret'.err = ErrNotGRPC
          /\ registered' = registered
          /\ clients' = clients
          /\ taken' = taken
          /\ \A c \in Callers : ~stream'[c].implCalled]_vars

\* C4's case: Server rejected on an instance that already served over gRPC.
C4_Witness ==
    \E i \in Instances :
        /\ ret = [op |-> "Server", inst |-> i, value |-> Nil, err |-> ErrNotGRPC]
        /\ "server" \in taken[i]

\* C5: with the implementation input -> [len(input)], every call that returns
\* on a live context returns the vector of its own input, and every answer on
\* the wire is the one of its own request.
C5_NoCrossTalk ==
    BoundImpl = "len" =>
        \A c \in Callers :
            /\ Answered(c) => stream[c].answer.elems = <<10 * Len(call[c].input)>>
            /\ (Returned(c) /\ LiveCtx(c)) =>
                  call[c].result =
                      [embedding |-> Slice(<<10 * Len(call[c].input)>>), err |-> NoErr]

\* C5's case: calls that overlapped, "a" and "bb", returned [1.0] and [2.0].
C5_Witness ==
    \E c, d \in Callers :
        /\ BoundImpl = "len" /\ overlap
        /\ Returned(c) /\ call[c].input = "a"
        /\ call[c].result.embedding = Slice(<<10>>)
        /\ Returned(d) /\ call[d].input = "bb"
        /\ call[d].result.embedding = Slice(<<20>>)

\* The error of a call ended by its context.
CtxStatus(c) == StatusErr(CtxCode(call[c].ctx.err), <<"context", call[c].ctx.err>>)

\* C6: a call whose context is done while it is in flight returns, and returns
\* a nil embedding and the wrapped Canceled / DeadlineExceeded status.
C6_CancelTerminates ==
    \A c \in Callers :
        (call[c].pc = "calling" /\ ~LiveCtx(c)) ~>
            (/\ Returned(c)
             /\ call[c].result.embedding = NilSlice
             /\ Unwrap(call[c].result.err) = CtxStatus(c))

\* C6's case: the answer was on its way when the context was cancelled, and
\* the call returned the cancellation.
C6_Witness ==
    \E c \in Callers :
        /\ Returned(c) /\ call[c].ctx.err = "canceled"
        /\ Answered(c) /\ stream[c].answer.ok
        /\ call[c].result.embedding = NilSlice
        /\ Unwrap(call[c].result.err) = CtxStatus(c)

\* C7 as stated: an instance takes at most one of the two gRPC paths.
C7_Exclusive == \A i \in Instances : Cardinality(taken[i]) <= 1

\* C7 amended: the facade keeps no binding state, so an instance may take both
\* paths; what holds is that every registered Server Adapter is bound to the
\* held implementation of an instance that took the server path, every
\* returned Client Adapter is bound to the connection it was given, and
\* adapters exist exactly for the paths taken.
C7_Bindings ==
    /\ \A h \in Handles :
          registered[h] # Nil =>
              \E i \in Instances :
                  /\ "server" \in taken[i]
                  /\ registered[h] = [isNil |-> FALSE, Impl |-> plugin[i].Embedding]
    /\ \A a \in clients : ~a.isNil /\ a.Client \in Handles
    /\ (clients # {}) <=> (\E i \in Instances : "client" \in taken[i])
    /\ (\E h \in Handles : registered[h] # Nil)
          <=> (\E i \in Instances : "server" \in taken[i])

\* C7's case: one instance that took both paths.
C7_Witness ==
    /\ taken["plugin"] = {"server", "client"}
    /\ \E h \in Handles : registered[h] = [isNil |-> FALSE, Impl |-> BoundImpl]
    /\ clients # {}

C9_OneRPC ==
    \A c \in Callers :
        /\ call[c].pc = "start" => call[c].rpcs = 0
        /\ call[c].pc \in {"calling", "returned"} => call[c].rpcs = 1
        /\ call[c].pc \in {"start", "calling", "returned"}

\* C9's case: a call that returned the remote error after its one RPC.
C9_Witness ==
    \E c \in Callers :
        /\ Returned(c) /\ LiveCtx(c)
        /\ call[c].result.err # NoErr
        /\ call[c].rpcs = 1

\* C10: whenever the implementation was invoked, on success or failure, the
\* context it received carried the "embedding" logging scope.
C10_Scoped ==
    \A c \in Callers :
        stream[c].implCalled => stream[c].implScope = "embedding"

\* C10's case: an invocation that failed, made on the scoped context.
C10_Witness ==
    \E c \in Callers :
        /\ stream[c].implCalled
        /\ stream[c].impl.err # NoErr
        /\ stream[c].implScope = "embedding"

====
